---------------------------- MODULE Spec2Model ----------------------------
(***************************************************************************)
(* A model of yt-gui (src/main.py): a PySide6 window that starts one       *)
(* DownloadWorker thread per download, and the worker's progress hook and  *)
(* logger adapter that translate yt-dlp callbacks into Qt signals.         *)
(*                                                                         *)
(* Strings are sequences of one-character strings, so that strip(),        *)
(* startswith(), replace() and float() are computed on the text itself.    *)
(* Python floats are IEEE-754 doubles: a positive double is a record       *)
(* [m, e] with m its 53 significand bits (most significant first, m[1]=1)  *)
(* and e the binary exponent of m[1].                                      *)
(***************************************************************************)
EXTENDS Integers, Sequences, FiniteSets, TLC

(***************************************************************************)
(* Bounds of the model.                                                    *)
(***************************************************************************)
\* jobs the user may start in one run of the program
MaxJobs == 2
\* callbacks (hook or logger calls) the library makes in one job
MaxEvents == 1
\* rejected starts the transcript may hold
MaxRejects == 1
\* width of the integer limbs the float arithmetic below is carried out in
LimbBits == 13

(***************************************************************************)
(* Text.                                                                   *)
(***************************************************************************)
DebugPrefix == <<"[", "d", "e", "b", "u", "g", "]">>
WarningPrefix == <<"W", "a", "r", "n", "i", "n", "g", ":", " ">>
ErrorPrefix == <<"E", "r", "r", "o", "r", ":", " ">>
ExceptionPrefix == <<"E", "x", "c", "e", "p", "t", "i", "o", "n", ":", " ">>
MsgEnterUrl == <<"P", "l", "e", "a", "s", "e", " ", "e", "n", "t", "e", "r", " ", "a", " ", "U", "R", "L">>
MsgSelectFolder == <<"P", "l", "e", "a", "s", "e", " ", "s", "e", "l", "e", "c", "t", " ", "a", "n", " ", "o", "u", "t", "p", "u", "t", " ", "f", "o", "l", "d", "e", "r">>
MsgReady == <<"R", "e", "a", "d", "y">>
MsgMode == <<"M", "o", "d", "e", ":", " ", "M", "P", "4", " ", "(", "H", ".", "2", "6", "4", " ", "/", " ", "A", "V", "C", ")">>
MsgStarting == <<"S", "t", "a", "r", "t", "i", "n", "g", " ", "d", "o", "w", "n", "l", "o", "a", "d", ".", ".", ".">>
MsgDownloadFinished == <<"D", "o", "w", "n", "l", "o", "a", "d", " ", "f", "i", "n", "i", "s", "h", "e", "d">>

\* characters str.strip() removes
Whitespace == {" ", "\t", "\n"}

\* str.startswith(prefix)
StartsWith(s, prefix) ==
    /\ Len(s) >= Len(prefix)
    /\ SubSeq(s, 1, Len(prefix)) = prefix

\* str.strip(): leading and trailing whitespace removed
RECURSIVE LStrip(_)
LStrip(s) == IF s # <<>> /\ s[1] \in Whitespace THEN LStrip(Tail(s)) ELSE s

RECURSIVE RStrip(_)
RStrip(s) ==
    IF s # <<>> /\ s[Len(s)] \in Whitespace
    THEN RStrip(SubSeq(s, 1, Len(s) - 1))
    ELSE s

\* Strip with the .strip() of lines 153 and 158 left out
StripOmitted(s) == s

Strip(s) == RStrip(LStrip(s))

\* str.replace(c, ''): every occurrence of the character c removed
RemoveChar(s, c) == SelectSeq(s, LAMBDA x : x # c)

(***************************************************************************)
(* Python float arithmetic: int / int (correctly rounded true division),   *)
(* float * 100 and int(float), on IEEE-754 doubles, round-to-nearest-even. *)
(***************************************************************************)
\* significand bits of a double
MantBits == 53

FZero == [m |-> <<>>, e |-> 0]

RECURSIVE Pow2(_)
Pow2(k) == IF k = 0 THEN 1 ELSE 2 * Pow2(k - 1)

Min(a, b) == IF a <= b THEN a ELSE b

\* the binary digits of a natural number, most significant first
RECURSIVE NatBits(_)
NatBits(n) == IF n = 0 THEN <<>> ELSE NatBits(n \div 2) \o <<n % 2>>

\* the low c binary digits of a natural number, most significant first
PadBits(n, c) == [i \in 1..c |-> (n \div Pow2(c - i)) % 2]

\* the natural number a bit sequence (most significant first) denotes
RECURSIVE BitsNat(_)
BitsNat(b) ==
    IF b = <<>> THEN 0
    ELSE 2 * BitsNat(SubSeq(b, 1, Len(b) - 1)) + b[Len(b)]

\* the next k bits of the binary expansion of r/m, for 0 <= r < m,
\* LimbBits bits at a time
RECURSIVE QuotBits(_, _, _)
QuotBits(r, m, k) ==
    IF k = 0 THEN <<>>
    ELSE LET c == Min(k, LimbBits)
             n == r * Pow2(c)
         IN  PadBits(n \div m, c) \o QuotBits(n % m, m, k - c)

\* the remainder left after those k bits
RECURSIVE QuotRem(_, _, _)
QuotRem(r, m, k) ==
    IF k = 0 THEN r
    ELSE LET c == Min(k, LimbBits)
         IN  QuotRem((r * Pow2(c)) % m, m, k - c)

\* b + 1 on a bit sequence of fixed length (all ones wraps to all zeros)
IncBits(b) ==
    LET zeros == {i \in 1..Len(b) : b[i] = 0}
        p     == IF zeros = {} THEN 0
                 ELSE CHOOSE i \in zeros : \A j \in zeros : j <= i
    IN  [i \in 1..Len(b) |-> IF i < p THEN b[i] ELSE IF i = p THEN 1 ELSE 0]

\* The double nearest to the exact value whose leading bits are `bits`
\* (bits[1] = 1, of weight 2^e), `sticky` telling whether non-zero bits
\* follow them: round to nearest, ties to even.
FRound(bits, sticky, e) ==
    LET n     == Len(bits)
        keep  == [i \in 1..MantBits |-> IF i <= n THEN bits[i] ELSE 0]
        guard == IF n > MantBits THEN bits[MantBits + 1] ELSE 0
        rest  == sticky \/ \E i \in (MantBits + 2)..n : bits[i] = 1
        up    == guard = 1 /\ (rest \/ keep[MantBits] = 1)
        inc   == IncBits(keep)
    IN  IF ~up THEN [m |-> keep, e |-> e]
        ELSE IF inc[1] = 1 THEN [m |-> inc, e |-> e]
        ELSE [m |-> [i \in 1..MantBits |-> IF i = 1 THEN 1 ELSE 0], e |-> e + 1]

\* the largest k with t * 2^k <= d, for d >= t > 0
RECURSIVE ShiftUp(_, _)
ShiftUp(d, t) == IF 2 * t <= d THEN 1 + ShiftUp(d, 2 * t) ELSE 0

\* the smallest j with d * 2^j >= t, for 0 < d
RECURSIVE ShiftDown(_, _)
ShiftDown(d, t) == IF d >= t THEN 0 ELSE 1 + ShiftDown(2 * d, t)

\* d / t for integers d >= 0, t > 0: the correctly rounded quotient
FDiv(d, t) ==
    IF d = 0 THEN FZero
    ELSE LET k == IF d >= t THEN ShiftUp(d, t) ELSE 0
             j == IF d >= t THEN 0 ELSE ShiftDown(d, t)
             n == d * Pow2(j)
             m == t * Pow2(k)
         IN  FRound(<<1>> \o QuotBits(n - m, m, MantBits),
                    QuotRem(n - m, m, MantBits) # 0,
                    k - j)

\* the bits of b * c + carry, for a bit sequence b and a small natural c,
\* LimbBits bits at a time from the least significant end
RECURSIVE MulBits(_, _, _)
MulBits(b, c, carry) ==
    IF Len(b) = 0 THEN NatBits(carry)
    ELSE LET w  == Min(Len(b), LimbBits)
             lo == SubSeq(b, Len(b) - w + 1, Len(b))
             v  == BitsNat(lo) * c + carry
         IN  MulBits(SubSeq(b, 1, Len(b) - w), c, v \div Pow2(w))
                \o PadBits(v % Pow2(w), w)

\* x * c for a double x >= 0 and a small natural c > 0 (c is exact as a double)
FMul(x, c) ==
    IF Len(x.m) = 0 THEN FZero
    ELSE LET p == MulBits(x.m, c, 0)
         IN  FRound(p, FALSE, x.e + (Len(p) - MantBits))

\* int(x) for a double x >= 0: truncation
FTrunc(x) ==
    IF Len(x.m) = 0 \/ x.e < 0 THEN 0
    ELSE BitsNat(SubSeq(x.m, 1, x.e + 1))

\* int((d / t) * 100), as lines 44-45 and 47-48 compute it
PercentOfBytes(d, t) == FTrunc(FMul(FDiv(d, t), 100))

(***************************************************************************)
(* float(percent_str) followed by int(), line 52.  The text accepted is    *)
(* [sign] digits [. [digits]], [sign] . digits, [sign] inf, [sign]         *)
(* infinity and [sign] nan; every other text raises ValueError.  (Python   *)
(* also accepts exponents, underscores and upper case; no text here does.   *)
(* A fraction of at most 15 digits cannot round up to the next integer,    *)
(* so int(float(s)) is the sign times the integer digits.)                 *)
(***************************************************************************)
Digits == {"0", "1", "2", "3", "4", "5", "6", "7", "8", "9"}

DigitVal(c) ==
    CASE c = "0" -> 0 [] c = "1" -> 1 [] c = "2" -> 2 [] c = "3" -> 3
      [] c = "4" -> 4 [] c = "5" -> 5 [] c = "6" -> 6 [] c = "7" -> 7
      [] c = "8" -> 8 [] c = "9" -> 9

AllDigits(s) == \A i \in 1..Len(s) : s[i] \in Digits

\* the value of a text of decimal digits
RECURSIVE DecVal(_)
DecVal(s) ==
    IF s = <<>> THEN 0
    ELSE 10 * DecVal(SubSeq(s, 1, Len(s) - 1)) + DigitVal(s[Len(s)])

\* the position of the first "." of s, 0 when it has none
DotPos(s) ==
    IF \E i \in 1..Len(s) : s[i] = "."
    THEN CHOOSE i \in 1..Len(s) : s[i] = "." /\ \A j \in 1..(i - 1) : s[j] # "."
    ELSE 0

\* float(s): [k |-> "finite", sign, int] (the integer digits alone: the
\* fraction never changes int()), "inf", "nan" or "ValueError"
ParseFloat(s0) ==
    LET s    == Strip(s0)
        neg  == s # <<>> /\ s[1] = "-"
        body == IF s # <<>> /\ s[1] \in {"+", "-"} THEN Tail(s) ELSE s
        dot  == DotPos(body)
        ip   == IF dot = 0 THEN body ELSE SubSeq(body, 1, dot - 1)
        fp   == IF dot = 0 THEN <<>> ELSE SubSeq(body, dot + 1, Len(body))
    IN  IF body \in {<<"i", "n", "f">>, <<"i", "n", "f", "i", "n", "i", "t", "y">>}
        THEN [k |-> "inf"]
        ELSE IF body = <<"n", "a", "n">> THEN [k |-> "nan"]
        ELSE IF AllDigits(ip) /\ AllDigits(fp) /\ Len(ip) + Len(fp) > 0
        THEN [k |-> "finite", sign |-> IF neg THEN -1 ELSE 1, int |-> DecVal(ip)]
        ELSE [k |-> "ValueError"]

(***************************************************************************)
(* Exceptions: [type, msg], msg being str(e).                              *)
(***************************************************************************)
NoExc == [type |-> "none", msg |-> <<>>]

MsgDivZero == <<"d", "i", "v", "i", "s", "i", "o", "n", " ", "b", "y", " ", "z", "e", "r", "o">>
MsgOperandHead == <<"u", "n", "s", "u", "p", "p", "o", "r", "t", "e", "d", " ", "o", "p", "e", "r", "a", "n", "d", " ", "t", "y", "p", "e", "(", "s", ")", " ", "f", "o", "r", " ", "/", ":", " ", "'">>
MsgOperandMid == <<"'", " ", "a", "n", "d", " ", "'">>
MsgInfToInt == <<"c", "a", "n", "n", "o", "t", " ", "c", "o", "n", "v", "e", "r", "t", " ", "f", "l", "o", "a", "t", " ", "i", "n", "f", "i", "n", "i", "t", "y", " ", "t", "o", " ", "i", "n", "t", "e", "g", "e", "r">>

TypeName(f) == IF f.k = "none" THEN <<"N", "o", "n", "e", "T", "y", "p", "e">> ELSE <<"i", "n", "t">>

(***************************************************************************)
(* The progress dictionary the library hands to the hook.  A field is      *)
(* [k |-> "absent"] (no such key), [k |-> "none"] (the key with None),     *)
(* [k |-> "int", v |-> n] or, for _percent_str, [k |-> "str", v |-> text]. *)
(***************************************************************************)
Absent == [k |-> "absent"]
None == [k |-> "none"]
Int_(n) == [k |-> "int", v |-> n]
Str_(s) == [k |-> "str", v |-> s]
\* 'key' in d
Has(f) == f.k # "absent"

Progress(n) == [sig |-> "progress", arg |-> n]
Log(s) == [sig |-> "log", arg |-> s]
Finished == [sig |-> "finished", arg |-> 0]

\* what a call emits, in order, and the exception it ends with (NoExc: none)
Outcome(emits, exc) == [emits |-> emits, exc |-> exc]

\* a / b * 100 emitted as int, lines 44-45 and 47-48
HookBytes(a, b) ==
    IF a.k = "none" \/ b.k = "none"
    THEN Outcome(<<>>, [type |-> "TypeError",
                        msg |-> MsgOperandHead \o TypeName(a) \o MsgOperandMid
                                  \o TypeName(b) \o <<"'">>])
    ELSE IF b.v = 0
    THEN Outcome(<<>>, [type |-> "ZeroDivisionError", msg |-> MsgDivZero])
    ELSE Outcome(<<Progress(PercentOfBytes(a.v, b.v))>>, NoExc)

\* HookPercentStr with the except clause of line 53 left out
HookPercentStrUncaught(p) ==
    LET f == ParseFloat(RemoveChar(p.v, "%"))
    IN  CASE f.k = "finite" -> Outcome(<<Progress(f.sign * f.int)>>, NoExc)
          [] f.k = "inf" -> Outcome(<<>>, [type |-> "OverflowError", msg |-> MsgInfToInt])
          [] OTHER -> Outcome(<<>>, [type |-> "ValueError", msg |-> <<>>])

\* lines 50-54
HookPercentStr(p) ==
    LET f == ParseFloat(RemoveChar(p.v, "%"))
    IN  CASE f.k = "finite" -> Outcome(<<Progress(f.sign * f.int)>>, NoExc)
          [] f.k = "inf" -> Outcome(<<>>, [type |-> "OverflowError", msg |-> MsgInfToInt])
          [] OTHER -> Outcome(<<>>, NoExc)

\* Hook without line 58: a finished event logs nothing
HookFinishedUnlogged(d) ==
    IF d.status = "downloading" THEN
        IF Has(d.downloaded_bytes) /\ Has(d.total_bytes)
        THEN HookBytes(d.downloaded_bytes, d.total_bytes)
        ELSE IF Has(d.downloaded_bytes) /\ Has(d.total_bytes_estimate)
        THEN HookBytes(d.downloaded_bytes, d.total_bytes_estimate)
        ELSE IF Has(d.percent_str)
        THEN HookPercentStr(d.percent_str)
        ELSE Outcome(<<>>, NoExc)
    ELSE IF d.status = "finished"
    THEN Outcome(<<Progress(100)>>, NoExc)
    ELSE Outcome(<<>>, NoExc)

\* hook(d), lines 40-58
Hook(d) ==
    IF d.status = "downloading" THEN
        IF Has(d.downloaded_bytes) /\ Has(d.total_bytes)
        THEN HookBytes(d.downloaded_bytes, d.total_bytes)
        ELSE IF Has(d.downloaded_bytes) /\ Has(d.total_bytes_estimate)
        THEN HookBytes(d.downloaded_bytes, d.total_bytes_estimate)
        ELSE IF Has(d.percent_str)
        THEN HookPercentStr(d.percent_str)
        ELSE Outcome(<<>>, NoExc)
    ELSE IF d.status = "finished"
    THEN Outcome(<<Progress(100), Log(MsgDownloadFinished)>>, NoExc)
    ELSE Outcome(<<>>, NoExc)

(***************************************************************************)
(* YTDLPLogger, lines 9-26: what each method emits on the log signal.      *)
(***************************************************************************)
\* LoggerDebug dropping every message
LoggerDebugDropsAll(msg) == <<>>

LoggerDebug(msg) == IF StartsWith(msg, DebugPrefix) THEN <<>> ELSE <<Log(msg)>>

LoggerInfo(msg) == <<Log(msg)>>

\* LoggerWarning forwarding the bare message
LoggerWarningBare(msg) == <<Log(msg)>>

LoggerWarning(msg) == <<Log(WarningPrefix \o msg)>>

LoggerError(msg) == <<Log(ErrorPrefix \o msg)>>

Levels == {"debug", "info", "warning", "error"}

LoggerCall(level, msg) ==
    CASE level = "debug" -> LoggerDebug(msg)
      [] level = "info" -> LoggerInfo(msg)
      [] level = "warning" -> LoggerWarning(msg)
      [] level = "error" -> LoggerError(msg)


(***************************************************************************)
(* The options of lines 60-85.                                             *)
(***************************************************************************)
\* the template '%(title)s.%(ext)s' of line 61
OutTemplate == <<"%", "(", "t", "i", "t", "l", "e", ")", "s", ".", "%", "(", "e", "x", "t", ")", "s">>

\* os.path.join(a, b) of posixpath: b alone when it is absolute, else a and
\* b with one "/" between them unless a is empty or ends with one
PathJoin(a, b) ==
    IF b # <<>> /\ b[1] = "/" THEN b
    ELSE IF a = <<>> \/ a[Len(a)] = "/" THEN a \o b
    ELSE a \o <<"/">> \o b

NoOpts == [built |-> FALSE]

\* YdlOpts with the template not joined to the output directory
YdlOptsBareTemplate(is_mp3, output_dir) ==
    IF is_mp3
    THEN [built |-> TRUE,
          outtmpl |-> OutTemplate,
          progress_hooks |-> <<"hook">>,
          logger |-> "YTDLPLogger",
          verbose |-> TRUE,
          format |-> "bestaudio/best",
          merge_output_format |-> "",
          postprocessors |-> << [key |-> "FFmpegExtractAudio",
                                 preferredcodec |-> "mp3",
                                 preferredquality |-> "320"] >>]
    ELSE [built |-> TRUE,
          outtmpl |-> OutTemplate,
          progress_hooks |-> <<"hook">>,
          logger |-> "YTDLPLogger",
          verbose |-> TRUE,
          format |-> "bestvideo[ext=mp4][vcodec^=avc1]+bestaudio[ext=m4a]/bestvideo[ext=mp4]+bestaudio/best[ext=mp4]/best",
          merge_output_format |-> "mp4",
          postprocessors |-> << [key |-> "FFmpegVideoConvertor",
                                 preferedformat |-> "mp4"] >>]

\* ydl_opts as lines 60-85 build it (merge_output_format "" when the key
\* is not set)
YdlOpts(is_mp3, output_dir) ==
    IF is_mp3
    THEN [built |-> TRUE,
          outtmpl |-> PathJoin(output_dir, OutTemplate),
          progress_hooks |-> <<"hook">>,
          logger |-> "YTDLPLogger",
          verbose |-> TRUE,
          format |-> "bestaudio/best",
          merge_output_format |-> "",
          postprocessors |-> << [key |-> "FFmpegExtractAudio",
                                 preferredcodec |-> "mp3",
                                 preferredquality |-> "320"] >>]
    ELSE [built |-> TRUE,
          outtmpl |-> PathJoin(output_dir, OutTemplate),
          progress_hooks |-> <<"hook">>,
          logger |-> "YTDLPLogger",
          verbose |-> TRUE,
          format |-> "bestvideo[ext=mp4][vcodec^=avc1]+bestaudio[ext=m4a]/bestvideo[ext=mp4]+bestaudio/best[ext=mp4]/best",
          merge_output_format |-> "mp4",
          postprocessors |-> << [key |-> "FFmpegVideoConvertor",
                                 preferedformat |-> "mp4"] >>]

(***************************************************************************)
(* Inputs of the model.                                                    *)
(***************************************************************************)
\* texts the user types into the URL field
UrlTexts == {<<>>, <<" ">>, <<" ", "u">>}

\* folders the directory picker returns (<<>>: the picker was cancelled)
Folders == {<<"/", "d">>, <<"/", "e">>}

\* exceptions the library raises by itself
LibExcs == {[type |-> "DownloadError", msg |-> <<"b", "o", "o", "m">>]}

Event(st, db, tb, te, ps) ==
    [status |-> st, downloaded_bytes |-> db, total_bytes |-> tb,
     total_bytes_estimate |-> te, percent_str |-> ps]

\* byte counts of the progress events
Bytes == {0, 1, 4, 29, 50, 100}

ByteFields == {Absent, None} \cup {Int_(n) : n \in Bytes}

PercentStrs ==
    { <<"3", "7", ".", "5", "%">>, <<" ", "5", "0", ".", "0", "%">>,
      <<"N", "/", "A">>, <<>>, <<"n", "a", "n">>, <<"i", "n", "f">>,
      <<"-", "5", "%">>, <<"U", "n", "k", "n", "o", "w", "n", " ", "%">> }

StrFields == {Absent} \cup {Str_(s) : s \in PercentStrs}

\* every progress dictionary of the model: any two of the four fields
\* absent or present, all four for a few values
AllEvents ==
    {Event("downloading", db, tb, Absent, Absent) : db \in ByteFields, tb \in ByteFields}
    \cup {Event("downloading", db, Absent, te, Absent) : db \in ByteFields, te \in ByteFields}
    \cup {Event("downloading", db, Absent, Absent, ps) : db \in ByteFields, ps \in StrFields}
    \cup {Event("downloading", Absent, tb, te, ps) :
            tb \in {Absent, Int_(4)}, te \in {Absent, Int_(50)}, ps \in StrFields}
    \cup {Event("downloading", Int_(1), tb, te, ps) :
            tb \in {Absent, Int_(4)}, te \in {Int_(50)}, ps \in {Absent, Str_(<<"3", "7", ".", "5", "%">>)}}
    \cup {Event(st, db, tb, Absent, ps) :
            st \in {"finished", "error"}, db \in {Absent, Int_(4)},
            tb \in {Absent, Int_(4)}, ps \in {Absent, Str_(<<"3", "7", ".", "5", "%">>)}}

\* every logger call of the model
AllMsgs ==
    { <<>>, <<"d", "i", "s", "k", " ", "l", "o", "w">>,
      <<"[", "d", "e", "b", "u", "g", "]", " ", "x">>,
      <<"[", "d", "e", "b", "u", "g", "]">>,
      <<"x", " ", "[", "d", "e", "b", "u", "g", "]">>,
      <<"[", "d", "o", "w", "n", "l", "o", "a", "d", "]", " ", "1", "%">> }

AllLogs == Levels \X AllMsgs

\* the callbacks the library makes in the specification of the whole window
MainEvents ==
    { Event("downloading", Int_(1), Int_(0), Absent, Absent),
      Event("finished", Absent, Absent, Absent, Absent) }

MainLogs == { <<"warning", <<"d", "i", "s", "k", " ", "l", "o", "w">> >> }

(***************************************************************************)
(* State.                                                                  *)
(***************************************************************************)
VARIABLES
    url_input,      \* text of the URL field (line 105)
    output_path,    \* text of the read-only output folder field (line 109)
    mp3_radio,      \* whether "MP3 (Audio only)" is checked (lines 118-120)
    dl_button,      \* whether the Download button is enabled (line 114)
    progress_bar,   \* value of the progress bar (line 115)
    log_box,        \* lines of the log transcript (line 116)
    worker,         \* self.worker: the current DownloadWorker, 0 before the first
    workers,        \* the DownloadWorker objects and the state of their threads
    queue,          \* signal emissions queued for the UI thread, in order
    njobs           \* DownloadWorker objects created so far

vars == <<url_input, output_path, mp3_radio, dl_button, progress_bar, log_box,
          worker, workers, queue, njobs>>

ui == <<url_input, output_path, mp3_radio, dl_button, progress_bar, log_box, worker, njobs>>

WorkerIds == 1..MaxJobs

\* A DownloadWorker (lines 28-95).  pc is the place its thread is at:
\*   "unborn"     not created yet
\*   "begin"      started, run() at line 40
\*   "construct"  at line 88, YoutubeDL(ydl_opts)
\*   "download"   inside ydl.download([self.url]), line 90
\*   "except"     at line 93, exc caught
\*   "finish"     at line 95, before finished.emit()
\*   "emitted"    finished emitted, run() not yet returned
\*   "done"       run() returned
\*   "gone"       run() returned and no reference is left
\* sent is what the worker emitted so far, downloads the arguments of its
\* ydl.download calls, ncalls the callbacks the library made and call the
\* latest of them, nready the times download_finished ran on its finished
\* signal, opts the ydl_opts it built.
NoCall == [kind |-> "none"]
HookCall(d) == [kind |-> "hook", d |-> d]
LogCall(level, msg) == [kind |-> "log", level |-> level, msg |-> msg]

NoWorker(pc) ==
    [pc |-> pc, url |-> <<>>, is_mp3 |-> FALSE, output_dir |-> <<>>, exc |-> NoExc,
     ncalls |-> 0, call |-> NoCall, downloads |-> <<>>, sent |-> <<>>, nready |-> 0,
     opts |-> NoOpts]

\* DownloadWorker.__init__ (lines 33-37) and QThread.start (line 174)
NewWorker(url, is_mp3, output_dir) ==
    [NoWorker("begin") EXCEPT !.url = url, !.is_mp3 = is_mp3, !.output_dir = output_dir]

\* a thread that has been started and whose run() has not returned
Active(w) == workers[w].pc \in {"begin", "construct", "download", "except", "finish", "emitted"}

\* QProgressBar.setValue with the default range 0..100: a value outside
\* the range is ignored
SetValue(cur, v) == IF v < 0 \/ v > 100 THEN cur ELSE v

Init ==
    /\ url_input = <<>>
    /\ output_path = <<>>
    /\ mp3_radio = FALSE
    /\ dl_button = TRUE
    /\ progress_bar = -1
    /\ log_box = <<>>
    /\ worker = 0
    /\ workers = [w \in WorkerIds |-> NoWorker("unborn")]
    /\ queue = <<>>
    /\ njobs = 0

(***************************************************************************)
(* The user and the UI thread.                                             *)
(***************************************************************************)
\* the user edits the URL field
EditUrl(t) ==
    /\ t # url_input
    /\ url_input' = t
    /\ UNCHANGED <<output_path, mp3_radio, dl_button, progress_bar, log_box,
                   worker, workers, queue, njobs>>

\* the user clicks one of the two radio buttons
SelectFormat(mp3) ==
    /\ mp3 # mp3_radio
    /\ mp3_radio' = mp3
    /\ UNCHANGED <<url_input, output_path, dl_button, progress_bar, log_box,
                   worker, workers, queue, njobs>>

\* choose_output_dir without the test of line 187: a cancelled picker
\* empties the field
choose_output_dir_unguarded(folder) ==
    /\ output_path' = folder
    /\ UNCHANGED <<url_input, mp3_radio, dl_button, progress_bar, log_box,
                   worker, workers, queue, njobs>>

\* choose_output_dir, lines 180-188
choose_output_dir(folder) ==
    /\ output_path' = IF folder # <<>> THEN folder ELSE output_path
    /\ UNCHANGED <<url_input, mp3_radio, dl_button, progress_bar, log_box,
                   worker, workers, queue, njobs>>

\* lines of the transcript that report a rejected start
Rejections == Len(SelectSeq(log_box, LAMBDA l : l \in {MsgEnterUrl, MsgSelectFolder}))

\* start_download_no_url with the reset of lines 165-166 done before the
\* validation
start_download_no_url_resets ==
    /\ dl_button
    /\ Strip(url_input) = <<>>
    /\ Rejections < MaxRejects
    /\ progress_bar' = SetValue(progress_bar, 0)
    /\ log_box' = <<MsgEnterUrl>>
    /\ UNCHANGED <<url_input, output_path, mp3_radio, dl_button,
                   worker, workers, queue, njobs>>

\* start_download, lines 152-156: no URL
start_download_no_url ==
    /\ dl_button
    /\ Strip(url_input) = <<>>
    /\ Rejections < MaxRejects
    /\ log_box' = Append(log_box, MsgEnterUrl)
    /\ UNCHANGED <<url_input, output_path, mp3_radio, dl_button, progress_bar,
                   worker, workers, queue, njobs>>

\* start_download, lines 152-161: no output folder
start_download_no_dir ==
    /\ dl_button
    /\ Strip(url_input) # <<>>
    /\ Strip(output_path) = <<>>
    /\ Rejections < MaxRejects
    /\ log_box' = Append(log_box, MsgSelectFolder)
    /\ UNCHANGED <<url_input, output_path, mp3_radio, dl_button, progress_bar,
                   worker, workers, queue, njobs>>

\* the object self.worker referred to, once the attribute is rebound
\* (line 168): it is released unless its thread is still inside run()
Released(old) == IF old.pc = "done" THEN NoWorker("gone") ELSE old

\* start_download_ok with line 173, setEnabled(False), left out
start_download_ok_stays_enabled ==
    LET url        == Strip(url_input)
        output_dir == Strip(output_path)
        id         == njobs + 1
    IN  /\ dl_button
        /\ url # <<>>
        /\ output_dir # <<>>
        /\ njobs < MaxJobs
        /\ progress_bar' = SetValue(progress_bar, 0)
        /\ log_box' = <<>>
        /\ workers' = [w \in WorkerIds |->
                          IF w = id THEN NewWorker(url, mp3_radio, output_dir)
                          ELSE IF w = worker THEN Released(workers[w])
                          ELSE workers[w]]
        /\ worker' = id
        /\ njobs' = id
        /\ UNCHANGED <<url_input, output_path, mp3_radio, queue, dl_button>>

\* start_download_ok with lines 165-166, the reset of the progress bar and
\* the clearing of the transcript, left out
start_download_ok_keeps_transcript ==
    LET url        == Strip(url_input)
        output_dir == Strip(output_path)
        id         == njobs + 1
    IN  /\ dl_button
        /\ url # <<>>
        /\ output_dir # <<>>
        /\ njobs < MaxJobs
        /\ workers' = [w \in WorkerIds |->
                          IF w = id THEN NewWorker(url, mp3_radio, output_dir)
                          ELSE IF w = worker THEN Released(workers[w])
                          ELSE workers[w]]
        /\ worker' = id
        /\ dl_button' = FALSE
        /\ njobs' = id
        /\ UNCHANGED <<url_input, output_path, mp3_radio, queue, progress_bar, log_box>>

\* start_download, lines 152-174: the job is started
start_download_ok ==
    LET url        == Strip(url_input)
        output_dir == Strip(output_path)
        id         == njobs + 1
    IN  /\ dl_button
        /\ url # <<>>
        /\ output_dir # <<>>
        /\ njobs < MaxJobs
        /\ progress_bar' = SetValue(progress_bar, 0)
        /\ log_box' = <<>>
        /\ workers' = [w \in WorkerIds |->
                          IF w = id THEN NewWorker(url, mp3_radio, output_dir)
                          ELSE IF w = worker THEN Released(workers[w])
                          ELSE workers[w]]
        /\ worker' = id
        /\ dl_button' = FALSE
        /\ njobs' = id
        /\ UNCHANGED <<url_input, output_path, mp3_radio, queue>>

start_download == start_download_no_url \/ start_download_no_dir \/ start_download_ok

\* the UI thread runs progress_bar.setValue on a queued progress signal (line 169)
DeliverProgress ==
    /\ queue # <<>>
    /\ Head(queue).sig = "progress"
    /\ progress_bar' = SetValue(progress_bar, Head(queue).arg)
    /\ queue' = Tail(queue)
    /\ UNCHANGED <<url_input, output_path, mp3_radio, dl_button, log_box,
                   worker, workers, njobs>>

\* the UI thread runs log_box.append on a queued log signal (line 170)
DeliverLog ==
    /\ queue # <<>>
    /\ Head(queue).sig = "log"
    /\ log_box' = Append(log_box, Head(queue).arg)
    /\ queue' = Tail(queue)
    /\ UNCHANGED <<url_input, output_path, mp3_radio, dl_button, progress_bar,
                   worker, workers, njobs>>

\* download_finished, lines 176-178, run on a queued finished signal (line 171)
download_finished ==
    /\ queue # <<>>
    /\ Head(queue).sig = "finished"
    /\ dl_button' = TRUE
    /\ log_box' = Append(log_box, MsgReady)
    /\ workers' = [workers EXCEPT ![Head(queue).job].nready = @ + 1]
    /\ queue' = Tail(queue)
    /\ UNCHANGED <<url_input, output_path, mp3_radio, progress_bar, worker, njobs>>

(***************************************************************************)
(* The worker thread: DownloadWorker.run, lines 39-95.                     *)
(***************************************************************************)
\* signal.emit from the worker thread: the emissions are queued for the UI
\* thread in order
Emit(w, sigs) == queue \o [i \in 1..Len(sigs) |-> [job |-> w, sig |-> sigs[i].sig, arg |-> sigs[i].arg]]

\* lines 40-85: the options are built; VIDEO mode logs its mode line (77)
RunBegin(w) ==
    LET me    == workers[w]
        lines == IF me.is_mp3 THEN <<>> ELSE <<Log(MsgMode)>>
    IN  /\ me.pc = "begin"
        /\ queue' = Emit(w, lines)
        /\ workers' = [workers EXCEPT ![w].pc = "construct", ![w].sent = @ \o lines,
                                      ![w].opts = YdlOpts(me.is_mp3, me.output_dir)]
        /\ UNCHANGED ui

\* RunDownload reading the URL field instead of self.url
RunDownloadReadsField(w) ==
    LET me == workers[w]
    IN  /\ me.pc = "construct"
        /\ queue' = Emit(w, <<Log(MsgStarting)>>)
        /\ workers' = [workers EXCEPT ![w].pc = "download",
                                      ![w].sent = Append(@, Log(MsgStarting)),
                                      ![w].downloads = Append(@, <<Strip(url_input)>>)]
        /\ UNCHANGED ui

\* RunDownload calling ydl.download a second time after the first
RunDownloadTwice(w) ==
    LET me == workers[w]
    IN  /\ me.pc = "construct"
        /\ queue' = Emit(w, <<Log(MsgStarting)>>)
        /\ workers' = [workers EXCEPT ![w].pc = "download",
                                      ![w].sent = Append(@, Log(MsgStarting)),
                                      ![w].downloads = @ \o << <<me.url>>, <<me.url>> >>]
        /\ UNCHANGED ui

\* lines 88-90: the YoutubeDL is constructed, "Starting download..." is
\* logged and ydl.download([self.url]) is entered
RunDownload(w) ==
    LET me == workers[w]
    IN  /\ me.pc = "construct"
        /\ queue' = Emit(w, <<Log(MsgStarting)>>)
        /\ workers' = [workers EXCEPT ![w].pc = "download",
                                      ![w].sent = Append(@, Log(MsgStarting)),
                                      ![w].downloads = Append(@, <<me.url>>)]
        /\ UNCHANGED ui

\* line 88: the constructor raises
ConstructRaises(w, e) ==
    /\ workers[w].pc = "construct"
    /\ workers' = [workers EXCEPT ![w].pc = "except", ![w].exc = e]
    /\ UNCHANGED <<queue, url_input, output_path, mp3_radio, dl_button,
                   progress_bar, log_box, worker, njobs>>

\* the library calls a method of the logger it was given (line 63)
LibLog(w, level, msg) ==
    LET me    == workers[w]
        lines == LoggerCall(level, msg)
    IN  /\ me.pc \in {"construct", "download"}
        /\ me.ncalls < MaxEvents
        /\ queue' = Emit(w, lines)
        /\ workers' = [workers EXCEPT ![w].ncalls = @ + 1,
                                      ![w].call = LogCall(level, msg),
                                      ![w].sent = @ \o lines]
        /\ UNCHANGED ui

\* the library calls the progress hook (line 62) during the download; an
\* exception of the hook leaves ydl.download
LibHook(w, d) ==
    LET me == workers[w]
        o  == Hook(d)
    IN  /\ me.pc = "download"
        /\ me.ncalls < MaxEvents
        /\ queue' = Emit(w, o.emits)
        /\ workers' = [workers EXCEPT ![w].ncalls = @ + 1,
                                      ![w].call = HookCall(d),
                                      ![w].sent = @ \o o.emits,
                                      ![w].pc = IF o.exc = NoExc THEN @ ELSE "except",
                                      ![w].exc = IF o.exc = NoExc THEN @ ELSE o.exc]
        /\ UNCHANGED ui

\* line 90: ydl.download returns and the with block is left
LibReturn(w) ==
    /\ workers[w].pc = "download"
    /\ workers' = [workers EXCEPT ![w].pc = "finish"]
    /\ UNCHANGED <<queue, url_input, output_path, mp3_radio, dl_button,
                   progress_bar, log_box, worker, njobs>>

\* line 90: ydl.download raises
LibRaise(w, e) ==
    /\ workers[w].pc = "download"
    /\ workers' = [workers EXCEPT ![w].pc = "except", ![w].exc = e]
    /\ UNCHANGED <<queue, url_input, output_path, mp3_radio, dl_button,
                   progress_bar, log_box, worker, njobs>>

\* RunExcept without the except clause: the exception leaves run()
RunExceptUncaught(w) ==
    /\ workers[w].pc = "except"
    /\ workers' = [workers EXCEPT ![w].pc = "done"]
    /\ UNCHANGED <<queue, url_input, output_path, mp3_radio, dl_button,
                   progress_bar, log_box, worker, njobs>>

\* RunExcept logging str(e) without the "Exception: " prefix
RunExceptBare(w) ==
    LET me   == workers[w]
        line == Log(me.exc.msg)
    IN  /\ me.pc = "except"
        /\ queue' = Emit(w, <<line>>)
        /\ workers' = [workers EXCEPT ![w].pc = "finish", ![w].sent = Append(@, line)]
        /\ UNCHANGED ui

\* RunExcept returning from the handler, so that line 95 is not reached
RunExceptReturns(w) ==
    LET me   == workers[w]
        line == Log(ExceptionPrefix \o me.exc.msg)
    IN  /\ me.pc = "except"
        /\ queue' = Emit(w, <<line>>)
        /\ workers' = [workers EXCEPT ![w].pc = "emitted", ![w].sent = Append(@, line)]
        /\ UNCHANGED ui

\* RunExcept emitting finished before it logs the exception
RunExceptFinishedFirst(w) ==
    LET me   == workers[w]
        line == Log(ExceptionPrefix \o me.exc.msg)
    IN  /\ me.pc = "except"
        /\ queue' = Emit(w, <<Finished, line>>)
        /\ workers' = [workers EXCEPT ![w].pc = "emitted", ![w].sent = @ \o <<Finished, line>>]
        /\ UNCHANGED ui

\* lines 92-93: the exception is caught and logged
RunExcept(w) ==
    LET me   == workers[w]
        line == Log(ExceptionPrefix \o me.exc.msg)
    IN  /\ me.pc = "except"
        /\ queue' = Emit(w, <<line>>)
        /\ workers' = [workers EXCEPT ![w].pc = "finish", ![w].sent = Append(@, line)]
        /\ UNCHANGED ui

\* line 95: self.finished.emit()
RunEmitFinished(w) ==
    /\ workers[w].pc = "finish"
    /\ queue' = Emit(w, <<Finished>>)
    /\ workers' = [workers EXCEPT ![w].pc = "emitted", ![w].sent = Append(@, Finished)]
    /\ UNCHANGED ui

\* run() returns: the thread ends, and the object goes with it when
\* self.worker already refers to a newer one
RunReturn(w) ==
    /\ workers[w].pc = "emitted"
    /\ workers' = [workers EXCEPT ![w] = IF worker = w
                                         THEN [@ EXCEPT !.pc = "done", !.ncalls = 0, !.call = NoCall]
                                         ELSE NoWorker("gone")]
    /\ UNCHANGED <<queue, url_input, output_path, mp3_radio, dl_button,
                   progress_bar, log_box, worker, njobs>>

\* the steps of run() that are the program's own
RunStep(w) == RunBegin(w) \/ RunDownload(w) \/ RunExcept(w) \/ RunEmitFinished(w) \/ RunReturn(w)

\* the ways the library's call ends
LibEnd(w) == LibReturn(w) \/ \E e \in LibExcs : LibRaise(w, e) \/ ConstructRaises(w, e)

UserStep ==
    \/ \E t \in UrlTexts : EditUrl(t)
    \/ \E b \in BOOLEAN : SelectFormat(b)
    \/ \E f \in Folders \cup {<<>>} : choose_output_dir(f)
    \/ start_download

Deliver == DeliverProgress \/ DeliverLog \/ download_finished

Next ==
    \/ UserStep
    \/ Deliver
    \/ \E w \in WorkerIds : RunStep(w)
    \/ \E w \in WorkerIds : LibEnd(w)
    \/ \E w \in WorkerIds, d \in MainEvents : LibHook(w, d)
    \/ \E w \in WorkerIds, l \in MainLogs : LibLog(w, l[1], l[2])

Spec == Init /\ [][Next]_vars

(***************************************************************************)
(* One job with every callback of the model: the window right after a      *)
(* start_download that passed validation, the worker, the library and the  *)
(* delivery of the worker's signals.                                       *)
(***************************************************************************)
JobInit ==
    /\ url_input = <<" ", "u">>
    /\ output_path = <<"/", "d">>
    /\ mp3_radio \in BOOLEAN
    /\ dl_button = FALSE
    /\ progress_bar = 0
    /\ log_box = <<>>
    /\ worker = 1
    /\ workers = [w \in WorkerIds |->
                     IF w = 1 THEN NewWorker(<<"u">>, mp3_radio, <<"/", "d">>)
                     ELSE NoWorker("unborn")]
    /\ queue = <<>>
    /\ njobs = 1

JobNext ==
    \/ Deliver
    \/ \E w \in WorkerIds : RunStep(w)
    \/ \E w \in WorkerIds : LibEnd(w)
    \/ \E w \in WorkerIds, d \in AllEvents : LibHook(w, d)
    \/ \E w \in WorkerIds, l \in AllLogs : LibLog(w, l[1], l[2])

JobSpec == JobInit /\ [][JobNext]_vars

(***************************************************************************)
(* The window with its fields filled in, under fair scheduling: the UI     *)
(* thread's event loop delivers every queued signal, the worker thread     *)
(* runs, and the library's call returns or raises.                         *)
(***************************************************************************)
FairInit ==
    /\ url_input = <<" ", "u">>
    /\ output_path = <<"/", "d">>
    /\ mp3_radio \in BOOLEAN
    /\ dl_button = TRUE
    /\ progress_bar = -1
    /\ log_box = <<>>
    /\ worker = 0
    /\ workers = [w \in WorkerIds |-> NoWorker("unborn")]
    /\ queue = <<>>
    /\ njobs = 0

FairNext ==
    \/ start_download_ok
    \/ Deliver
    \/ \E w \in WorkerIds : RunStep(w)
    \/ \E w \in WorkerIds : LibEnd(w)
    \/ \E w \in WorkerIds, d \in MainEvents : LibHook(w, d)
    \/ \E w \in WorkerIds, l \in MainLogs : LibLog(w, l[1], l[2])

Fairness ==
    /\ WF_vars(Deliver)
    /\ \A w \in WorkerIds : WF_vars(RunStep(w)) /\ WF_vars(LibEnd(w))

FairSpec == FairInit /\ [][FairNext]_vars /\ Fairness

(***************************************************************************)
(* Properties.                                                             *)
(***************************************************************************)
\* a text with nothing but whitespace in it
IsBlank(s) == \A i \in 1..Len(s) : s[i] \in {" ", "\t", "\n"}

NFinished(w) == Len(SelectSeq(workers[w].sent, LAMBDA n : n.sig = "finished"))

HasExceptionPrefix(s) ==
    /\ Len(s) >= Len(ExceptionPrefix)
    /\ \A i \in 1..Len(ExceptionPrefix) : s[i] = ExceptionPrefix[i]

ExcLines(w) ==
    SelectSeq(workers[w].sent, LAMBDA n : n.sig = "log" /\ HasExceptionPrefix(n.arg))

WasReady == log_box # <<>> /\ log_box[Len(log_box)] = MsgReady

\* the step is a callback of the library into worker w
CallStep(w) == workers'[w].ncalls = workers[w].ncalls + 1

\* in the step worker w emits exactly `sigs`, in order
Forwarded(w, sigs) ==
    /\ workers'[w].sent = workers[w].sent \o sigs
    /\ queue' = queue \o [i \in 1..Len(sigs) |->
                            [job |-> w, sig |-> sigs[i].sig, arg |-> sigs[i].arg]]

\* in the step of worker w, nothing changes but its callback count, its
\* latest callback and what it emitted
OnlyEmits(w) ==
    /\ UNCHANGED ui
    /\ workers' = [workers EXCEPT ![w].ncalls = workers'[w].ncalls,
                                  ![w].call = workers'[w].call,
                                  ![w].sent = workers'[w].sent]

\* C1: a start_download with a blank URL or a blank output folder creates
\* and starts no worker, leaves the Download button enabled and appends
\* exactly one message to the transcript.
C1_RejectedStart ==
    [][ (start_download /\ (IsBlank(url_input) \/ IsBlank(output_path)))
        => /\ workers' = workers
           /\ worker' = worker
           /\ njobs' = njobs
           /\ queue' = queue
           /\ dl_button /\ dl_button'
           /\ \E m \in {MsgEnterUrl, MsgSelectFolder} : log_box' = Append(log_box, m) ]_vars

C1_Witness ==
    /\ IsBlank(output_path)
    /\ ~IsBlank(url_input)
    /\ log_box = <<MsgSelectFolder>>
    /\ dl_button
    /\ worker = 0

C2_Inv ==
    /\ \A w \in WorkerIds : workers[w].nready <= 1
    /\ \A w \in WorkerIds : workers[w].nready = 1 => NFinished(w) = 1
    /\ \A w \in WorkerIds : workers[w].pc \in {"begin", "construct", "download"} => ~dl_button
    /\ (dl_button /\ worker # 0) => workers[worker].nready = 1
    /\ \A w \in WorkerIds :
          (workers[w].pc = "done" /\ \A i \in 1..Len(queue) : queue[i].job # w)
             => workers[w].nready = 1

C2_Step ==
    /\ worker' # worker
         => /\ ~dl_button'
            /\ workers[worker'].pc = "unborn"
            /\ workers'[worker'].pc = "begin"
    /\ (~dl_button /\ dl_button')
         => /\ worker # 0
            /\ workers'[worker].nready = workers[worker].nready + 1
            /\ NFinished(worker) = 1

C3_AtMostOneActive ==
    \A v, w \in WorkerIds : Active(v) /\ Active(w) => v = w

C6_EventuallyReady ==
    \A w \in WorkerIds :
        (workers[w].pc = "begin") ~> (dl_button /\ workers[w].nready = 1 /\ WasReady)

C6_Witness ==
    \E w \in WorkerIds :
        /\ worker = w
        /\ njobs = MaxJobs
        /\ workers[w].exc # NoExc
        /\ dl_button /\ workers[w].nready = 1 /\ WasReady

IsDebugCall(c) == c.kind = "log" /\ c.level = "debug"

HasDebugTag(m) ==
    /\ Len(m) >= 7
    /\ m[1] = "[" /\ m[2] = "d" /\ m[3] = "e" /\ m[4] = "b" /\ m[5] = "u" /\ m[6] = "g" /\ m[7] = "]"

\* C7 as stated: no debug-level call forwards a log line, whatever its text.
C7_DebugNeverForwards ==
    [][ \A w \in WorkerIds :
          (CallStep(w) /\ IsDebugCall(workers'[w].call)) => Forwarded(w, <<>>) ]_vars

\* C7 as amended: a debug-level call whose text starts with "[debug]"
\* forwards nothing; a debug-level call with any other text forwards
\* exactly one line, the text itself.
C7_DebugTagSuppressed ==
    [][ \A w \in WorkerIds :
          (CallStep(w) /\ IsDebugCall(workers'[w].call))
             => LET m == workers'[w].call.msg
                IN  Forwarded(w, IF HasDebugTag(m) THEN <<>> ELSE <<Log(m)>>) ]_vars

C7_Witness ==
    \E w \in WorkerIds :
        /\ IsDebugCall(workers[w].call)
        /\ workers[w].call.msg = <<"[", "d", "e", "b", "u", "g", "]", " ", "x">>
        /\ workers[w].pc = "download"
        /\ workers[w].sent[Len(workers[w].sent)] = Log(MsgStarting)

\* C8: an info-level call forwards exactly the line m, a warning-level call
\* exactly "Warning: " + m and an error-level call exactly "Error: " + m,
\* and changes nothing else.
C8_LevelsForwarded ==
    [][ \A w \in WorkerIds :
          LET c == workers'[w].call
          IN  (CallStep(w) /\ c.kind = "log" /\ c.level \in {"info", "warning", "error"})
                 => /\ Forwarded(w, << Log(CASE c.level = "info" -> c.msg
                                              [] c.level = "warning" ->
                                                   <<"W", "a", "r", "n", "i", "n", "g", ":", " ">> \o c.msg
                                              [] c.level = "error" ->
                                                   <<"E", "r", "r", "o", "r", ":", " ">> \o c.msg) >>)
                    /\ OnlyEmits(w) ]_vars

C8_Witness ==
    \E w \in WorkerIds :
        /\ workers[w].call = LogCall("warning", <<"d", "i", "s", "k", " ", "l", "o", "w">>)
        /\ workers[w].sent[Len(workers[w].sent)] =
              Log(<<"W", "a", "r", "n", "i", "n", "g", ":", " ", "d", "i", "s", "k", " ", "l", "o", "w">>)

IsInt(f) == f.k = "int"

\* the integer part of the number in a percent text, for the numeric texts
\* of the model
PercentTextValue(s) ==
    CASE s = <<"3", "7", ".", "5", "%">> -> 37
      [] s = <<" ", "5", "0", ".", "0", "%">> -> 50
      [] s = <<"-", "5", "%">> -> -5

NumericTexts ==
    { <<"3", "7", ".", "5", "%">>, <<" ", "5", "0", ".", "0", "%">>, <<"-", "5", "%">> }

\* texts that are not a number
NonNumericTexts ==
    { <<"N", "/", "A">>, <<>>, <<"n", "a", "n">>, <<"U", "n", "k", "n", "o", "w", "n", " ", "%">> }

\* the percent C9 prescribes for a downloading event, where it prescribes one
C9_HasPercent(d) ==
    \/ IsInt(d.downloaded_bytes) /\ IsInt(d.total_bytes) /\ d.total_bytes.v > 0
    \/ /\ IsInt(d.downloaded_bytes) /\ ~Has(d.total_bytes)
       /\ IsInt(d.total_bytes_estimate) /\ d.total_bytes_estimate.v > 0
    \/ /\ ~(Has(d.downloaded_bytes) /\ Has(d.total_bytes))
       /\ ~(Has(d.downloaded_bytes) /\ Has(d.total_bytes_estimate))
       /\ Has(d.percent_str) /\ d.percent_str.v \in NumericTexts

C9_Percent(d) ==
    IF Has(d.downloaded_bytes) /\ Has(d.total_bytes)
    THEN (100 * d.downloaded_bytes.v) \div d.total_bytes.v
    ELSE IF Has(d.downloaded_bytes) /\ Has(d.total_bytes_estimate)
    THEN (100 * d.downloaded_bytes.v) \div d.total_bytes_estimate.v
    ELSE PercentTextValue(d.percent_str.v)

\* C9: on a downloading event the hook emits exactly one percent: the
\* integer part of 100 * downloaded_bytes / total_bytes when both are
\* given, else of 100 * downloaded_bytes / total_bytes_estimate, else of
\* the number in _percent_str.
C9_PercentByPriority ==
    [][ \A w \in WorkerIds :
          LET c == workers'[w].call
          IN  (CallStep(w) /\ c.kind = "hook" /\ c.d.status = "downloading" /\ C9_HasPercent(c.d))
                 => Forwarded(w, <<Progress(C9_Percent(c.d))>>) ]_vars

\* C10: a downloading event with none of the four fields, or with only a
\* _percent_str that is not a number, emits nothing, raises nothing and
\* leaves the job where it was.
C10_IgnoredEvent ==
    [][ \A w \in WorkerIds :
          LET c == workers'[w].call
          IN  (/\ CallStep(w) /\ c.kind = "hook" /\ c.d.status = "downloading"
               /\ ~Has(c.d.downloaded_bytes) /\ ~Has(c.d.total_bytes)
               /\ ~Has(c.d.total_bytes_estimate)
               /\ (Has(c.d.percent_str) => c.d.percent_str.v \in NonNumericTexts))
                 => /\ Forwarded(w, <<>>)
                    /\ OnlyEmits(w)
                    /\ workers'[w].pc = "download"
                    /\ workers'[w].exc = NoExc ]_vars

C10_Witness ==
    \E w \in WorkerIds :
        /\ workers[w].call = HookCall(Event("downloading", Absent, Absent, Absent,
                                            Str_(<<"N", "/", "A">>)))
        /\ workers[w].pc = "download"
        /\ workers[w].exc = NoExc
        /\ workers[w].sent[Len(workers[w].sent)] = Log(MsgStarting)

\* the single post-processing step of an options object
OnlyStep(o) == o.postprocessors[1]

\* C11: the options built for a job follow from its mode: AUDIO gives
\* format "bestaudio/best" and one step extracting MP3 audio at quality
\* 320; VIDEO gives the chain H.264 MP4 video + M4A audio / MP4 video +
\* best audio / best MP4 / best and one step converting to MP4; in both
\* the output template is "%(title)s.%(ext)s" directly inside the job's
\* output directory, and one progress hook and one logger are registered.
C11_OptionsByMode ==
    \A w \in WorkerIds :
        LET me == workers[w]
            o  == me.opts
        IN  o.built =>
              /\ \E sep \in {<<>>, <<"/">>} :
                    /\ o.outtmpl = me.output_dir \o sep \o
                          <<"%", "(", "t", "i", "t", "l", "e", ")", "s", ".", "%", "(", "e", "x", "t", ")", "s">>
                    /\ (me.output_dir \o sep)[Len(me.output_dir \o sep)] = "/"
              /\ Len(o.progress_hooks) = 1
              /\ o.logger = "YTDLPLogger"
              /\ Len(o.postprocessors) = 1
              /\ me.is_mp3 =>
                    /\ o.format = "bestaudio/best"
                    /\ OnlyStep(o).key = "FFmpegExtractAudio"
                    /\ OnlyStep(o).preferredcodec = "mp3"
                    /\ OnlyStep(o).preferredquality = "320"
              /\ ~me.is_mp3 =>
                    /\ o.format = "bestvideo[ext=mp4][vcodec^=avc1]+bestaudio[ext=m4a]/bestvideo[ext=mp4]+bestaudio/best[ext=mp4]/best"
                    /\ OnlyStep(o).key = "FFmpegVideoConvertor"
                    /\ OnlyStep(o).preferedformat = "mp4"

C11_Witness ==
    /\ workers[1].opts.built /\ workers[1].is_mp3
    /\ workers[1].opts.outtmpl =
          <<"/", "d", "/", "%", "(", "t", "i", "t", "l", "e", ")", "s", ".", "%", "(", "e", "x", "t", ")", "s">>
    /\ workers[2].opts.built /\ ~workers[2].is_mp3
    /\ workers[2].output_dir = <<"/", "e">>

\* the request of worker w: what it was constructed with, the options it
\* built and the arguments of its download calls
Request(ws, w) == <<ws[w].url, ws[w].is_mp3, ws[w].output_dir, ws[w].opts, ws[w].downloads>>

\* C12: choose_output_dir leaves the output folder field as it was when
\* the picker is cancelled and sets it to the chosen folder otherwise, and
\* changes neither the Download button, the progress value, the transcript
\* nor the request of any worker.
C12_ChooseOutputDir ==
    [][ \A f \in Folders \cup {<<>>} :
          choose_output_dir(f)
            => /\ output_path' = (IF f = <<>> THEN output_path ELSE f)
               /\ dl_button' = dl_button
               /\ progress_bar' = progress_bar
               /\ log_box' = log_box
               /\ \A w \in WorkerIds : Request(workers', w) = Request(workers, w) ]_vars

C12_Witness ==
    /\ ~dl_button
    /\ worker = 1
    /\ workers[1].pc = "download"
    /\ workers[1].output_dir = <<"/", "d">>
    /\ output_path = <<"/", "e">>

\* the progress values worker w emitted
ProgressValues(w) ==
    {workers[w].sent[i].arg : i \in {j \in 1..Len(workers[w].sent) : workers[w].sent[j].sig = "progress"}}

\* C13: every progress value a worker emits is an integer from 0 to 100.
C13_ProgressInRange ==
    \A w \in WorkerIds : \A v \in ProgressValues(w) : v \in 0..100

\* C14: a finished event makes the hook emit progress 100 and then the
\* log line "Download finished", once each, whatever else the event
\* carries; an event whose status is neither downloading nor finished
\* emits nothing.
C14_FinishedEvent ==
    [][ \A w \in WorkerIds :
          LET c == workers'[w].call
          IN  (CallStep(w) /\ c.kind = "hook")
                 => /\ c.d.status = "finished"
                         => Forwarded(w, << [sig |-> "progress", arg |-> 100],
                                            [sig |-> "log",
                                             arg |-> <<"D", "o", "w", "n", "l", "o", "a", "d", " ",
                                                       "f", "i", "n", "i", "s", "h", "e", "d">>] >>)
                    /\ c.d.status \notin {"downloading", "finished"}
                         => Forwarded(w, <<>>) ]_vars

C14_Witness ==
    \E w \in WorkerIds :
        LET me == workers[w]
            n  == Len(me.sent)
        IN  /\ me.call = HookCall(Event("finished", Int_(4), Int_(4), Absent,
                                        Str_(<<"3", "7", ".", "5", "%">>)))
            /\ n >= 2
            /\ me.sent[n - 1] = Progress(100)
            /\ me.sent[n] = Log(MsgDownloadFinished)
            /\ Len(SelectSeq(me.sent, LAMBDA x : x.sig = "progress")) = 1

\* worker w logged "Starting download...": its YoutubeDL was constructed
Constructed(w) ==
    \E i \in 1..Len(workers[w].sent) :
        workers[w].sent[i] = [sig |-> "log",
                              arg |-> <<"S", "t", "a", "r", "t", "i", "n", "g", " ", "d", "o", "w",
                                        "n", "l", "o", "a", "d", ".", ".", ".">>]

\* C15 as stated: a job that has signalled completion called ydl.download
\* exactly once, with the list holding its URL.
C15_DownloadOnce ==
    \A w \in WorkerIds :
        NFinished(w) >= 1 => workers[w].downloads = << <<workers[w].url>> >>

\* C15, amended: ydl.download is never called more than once in a job and
\* only with the list holding the job's URL; a job that has signalled
\* completion called it exactly once when its YoutubeDL was constructed
\* and not at all when the constructor raised.
C15_DownloadOnceIfConstructed ==
    \A w \in WorkerIds :
        LET me == workers[w]
        IN  /\ Len(me.downloads) <= 1
            /\ \A i \in 1..Len(me.downloads) : me.downloads[i] = <<me.url>>
            /\ NFinished(w) >= 1 =>
                  /\ Constructed(w) => Len(me.downloads) = 1
                  /\ ~Constructed(w) => me.downloads = <<>> /\ Len(ExcLines(w)) = 1

C15_Witness ==
    \E w \in WorkerIds :
        /\ NFinished(w) = 1
        /\ workers[w].exc.type = "DownloadError"
        /\ Constructed(w)
        /\ workers[w].downloads = << << <<"u">> >> >>

\* the log lines worker w emitted, in order
LogLines(w) ==
    LET logs == SelectSeq(workers[w].sent, LAMBDA n : n.sig = "log")
    IN  [i \in 1..Len(logs) |-> logs[i].arg]

IsPrefix(s, t) == Len(s) <= Len(t) /\ SubSeq(t, 1, Len(s)) = s

\* the transcript holds lines of the current job only: some of its log
\* lines in order and, once all of them are there, "Ready" and whatever
\* rejected starts add after it
C16_Inv ==
    worker # 0 =>
        LET L == LogLines(worker)
        IN  /\ \/ IsPrefix(log_box, L)
               \/ /\ IsPrefix(L, log_box)
                  /\ log_box[Len(L) + 1] = <<"R", "e", "a", "d", "y">>
                  /\ \A i \in (Len(L) + 2)..Len(log_box) :
                        log_box[i] \in {MsgEnterUrl, MsgSelectFolder}
            /\ ~dl_button => progress_bar \in ({0} \cup (ProgressValues(worker) \cap 0..100))

\* the step that launches a job
C16_Step ==
    worker' # worker
       => /\ progress_bar' = 0
          /\ log_box' = <<>>
          /\ dl_button /\ ~dl_button'
          /\ njobs' = njobs + 1
          /\ Cardinality({w \in WorkerIds : workers[w].pc = "unborn" /\ workers'[w].pc # "unborn"}) = 1
          /\ workers[worker'].pc = "unborn" /\ workers'[worker'].pc = "begin"
          /\ \A i \in 1..Len(queue') : queue'[i].job # worker'

Asked == <<Strip(url_input), mp3_radio, Strip(output_path)>>

Captured(ws, w) == <<ws[w].url, ws[w].is_mp3, ws[w].output_dir>>

\* a worker that exists keeps what it captured, downloads its captured
\* URL and builds its options from the captured mode and folder
C17_Inv ==
    \A w \in WorkerIds :
        LET me == workers[w]
        IN  /\ \A i \in 1..Len(me.downloads) : me.downloads[i] = <<me.url>>
            /\ me.opts.built =>
                  /\ me.opts.format = (IF me.is_mp3 THEN "bestaudio/best"
                                       ELSE "bestvideo[ext=mp4][vcodec^=avc1]+bestaudio[ext=m4a]/bestvideo[ext=mp4]+bestaudio/best[ext=mp4]/best")
                  /\ IsPrefix(me.output_dir, me.opts.outtmpl)

C17_Step ==
    \A w \in WorkerIds :
        /\ (workers[w].pc = "unborn" /\ workers'[w].pc # "unborn")
              => Captured(workers', w) = Asked
        /\ (workers[w].pc \notin {"unborn", "gone"} /\ workers'[w].pc # "gone")
              => /\ Captured(workers', w) = Captured(workers, w)
                 /\ workers[w].opts.built => workers'[w].opts = workers[w].opts
                 /\ IsPrefix(workers[w].downloads, workers'[w].downloads)

\* C17: a worker's URL, mode and output folder are the values start_download
\* read when it created the worker and never change afterwards; the URL
\* given to ydl.download and the options are taken from them, whatever the
\* URL field, the format selection and the folder field hold by then.
C17_RequestFixed == []C17_Inv /\ [][C17_Step]_vars

C17_Witness ==
    \E w \in WorkerIds :
        /\ workers[w].pc = "download"
        /\ workers[w].downloads = << << <<"u">> >> >>
        /\ ~workers[w].is_mp3 /\ workers[w].opts.merge_output_format = "mp4"
        /\ workers[w].opts.outtmpl = PathJoin(<<"/", "d">>, OutTemplate)
        /\ url_input = <<>>
        /\ mp3_radio
        /\ output_path = <<"/", "e">>

\* the queued signals of worker w, in order
QueueOf(w) ==
    LET q == SelectSeq(queue, LAMBDA e : e.job = w)
    IN  [i \in 1..Len(q) |-> [sig |-> q[i].sig, arg |-> q[i].arg]]

IsSuffix(s, t) == Len(s) <= Len(t) /\ SubSeq(t, Len(t) - Len(s) + 1, Len(t)) = s

\* what is still queued of a worker is the tail of what it emitted
C18_Inv == \A w \in WorkerIds : IsSuffix(QueueOf(w), workers[w].sent)

\* the UI thread applies the signal at the head of the queue
C18_Step ==
    (queue # <<>> /\ queue' = Tail(queue))
       => LET e == Head(queue)
          IN  /\ e.job = worker
              /\ workers[e.job].nready = 0
              /\ e.sig = "log" => log_box' = Append(log_box, e.arg)
              /\ e.sig = "finished"
                   => /\ log_box' = Append(log_box, <<"R", "e", "a", "d", "y">>)
                      /\ workers[e.job].pc \in {"emitted", "done"}
                      /\ \A i \in 1..Len(queue') : queue'[i].job # e.job

C19_RejectedStartFrame ==
    [][ (start_download_no_url \/ start_download_no_dir)
          => /\ Len(log_box') = Len(log_box) + 1
             /\ SubSeq(log_box', 1, Len(log_box)) = log_box
             /\ progress_bar' = progress_bar
             /\ url_input' = url_input
             /\ output_path' = output_path
             /\ mp3_radio' = mp3_radio
             /\ dl_button' = dl_button
             /\ worker' = worker ]_vars

C19_Witness ==
    /\ worker = 1
    /\ dl_button
    /\ progress_bar = 100
    /\ Len(log_box) >= 3
    /\ log_box[Len(log_box) - 1] = MsgReady
    /\ log_box[Len(log_box)] = MsgEnterUrl
    /\ IsBlank(url_input)

=============================================================================
